---- MODULE Spec2Model ----
(***************************************************************************)
(* Model of minimal-real-generator.py: the lazy row generator build_row,   *)
(* the backtracking search of find_minimal_hadamard and the printing done  *)
(* by the main block and print_hadamard_01.                                *)
(*                                                                         *)
(* A Python generator is modelled as the stack of its suspended build_row  *)
(* frames (one per nested `yield from`); every backtrack call that has     *)
(* started its for-loop owns one such generator.  The list `rows` is ONE   *)
(* shared variable: build_row reads it at every step through prev_rows,    *)
(* exactly as the code reads the list object it was handed.                *)
(***************************************************************************)
EXTENDS Integers, Sequences, FiniteSets, TLC

\* ---------------------------------------------------------------- bounds
MaxN == 3
MaxGenM == 3
MaxGenRows == 2
MaxCorrupt == 2

VARIABLES n, m, total_ones, lam, rows, bt, pc, cand, result, out, pidx

vars == <<n, m, total_ones, lam, rows, bt, pc, cand, result, out, pidx>>

\* ------------------------------------------------------- python values
NoneVal == [tag |-> "None", val |-> <<>>]

ListVal(s) == [tag |-> "list", val |-> s]

\* truth value of `if result:` / `if rows_bitmask:` (None and [] are falsy)
Truthy(x) == x.tag = "list" /\ Len(x.val) > 0

\* ------------------------------------------------------ bit arithmetic
RECURSIVE Pow2(_)
Pow2(e) == IF e <= 0 THEN 1 ELSE 2 * Pow2(e - 1)

\* m - 1 - bit_index : bit position 0 is the most significant column
ShiftLsbFirst(mm, bit_index) == bit_index

Shift(mm, bit_index) == mm - 1 - bit_index

\* (prev >> sh) & 1
TestBit(prev, sh) == (prev \div Pow2(sh)) % 2

\* current_row | (1 << sh)
SetBitOffByOne(cur, sh) ==
    IF TestBit(cur, sh + 1) = 1 THEN cur ELSE cur + Pow2(sh + 1)

SetBit(cur, sh) == IF TestBit(cur, sh) = 1 THEN cur ELSE cur + Pow2(sh)

\* sum(1 << (m - 1 - i) for i in range(total_ones))
RECURSIVE FirstRowSum(_, _)
FirstRowSum(mm, cnt) ==
    IF cnt <= 0 THEN 0
    ELSE Pow2(Shift(mm, cnt - 1)) + FirstRowSum(mm, cnt - 1)

\* --------------------------------------------------------- build_row
\* base case test of line 9
BaseYieldsNoOverlapCheck(ones_left, overlaps) == ones_left = 0

BaseYields(ones_left, overlaps) ==
    ones_left = 0 /\ \A i \in 1..Len(overlaps) : overlaps[i] = 0

\* lines 20-21
SetNeeded(prev, needed, sh) ==
    IF TestBit(prev, sh) = 1 THEN needed - 1 ELSE needed

\* line 22
SetPruneOffByOne(needed, remaining_positions) ==
    needed <= 0 \/ needed > remaining_positions - 1

SetPrune(needed, remaining_positions) ==
    needed < 0 \/ needed > remaining_positions - 1

\* lines 37-38
ClearPrune(prev, needed, sh, remaining_positions) ==
    TestBit(prev, sh) = 1 /\ needed > remaining_positions - 1

\* zip(prev_rows, overlaps_needed) stops at the shorter of the two
ZipLen(prev_rows, overlaps) ==
    IF Len(prev_rows) < Len(overlaps) THEN Len(prev_rows) ELSE Len(overlaps)

\* the loop of lines 17-25: `prune` is set at the first pair that fails the
\* test of line 22 and the loop breaks there; new_overlaps holds the
\* decremented requirements of the pairs before it
SetLoop(prev_rows, overlaps, sh, remaining_positions) ==
    LET len == ZipLen(prev_rows, overlaps)
        bad == {i \in 1..len :
                   SetPrune(SetNeeded(prev_rows[i], overlaps[i], sh),
                            remaining_positions)}
        stop == IF bad = {} THEN len + 1
                ELSE CHOOSE i \in bad : \A j \in bad : i <= j
    IN  [prune |-> bad # {},
         new_overlaps |-> [i \in 1..(stop - 1) |->
                              SetNeeded(prev_rows[i], overlaps[i], sh)]]

\* the loop of lines 34-41, same shape with the test of lines 37-38 and the
\* requirements carried over unchanged
ClearLoop(prev_rows, overlaps, sh, remaining_positions) ==
    LET len == ZipLen(prev_rows, overlaps)
        bad == {i \in 1..len :
                   ClearPrune(prev_rows[i], overlaps[i], sh, remaining_positions)}
        stop == IF bad = {} THEN len + 1
                ELSE CHOOSE i \in bad : \A j \in bad : i <= j
    IN  [prune |-> bad # {},
         new_overlaps |-> [i \in 1..(stop - 1) |-> overlaps[i]]]

\* one activation of build_row; `at` is where it is suspended:
\*   "start"   not yet run
\*   "set"     the set branch (lines 16-31) is over or was skipped
\*   "clear"   the clear branch (lines 34-43) is over or was skipped
\*   "yielded" suspended at the yield of line 10
BuildRowFrame(bit_index, ones_left, current_row, overlaps) ==
    [bit_index |-> bit_index, ones_left |-> ones_left,
     current_row |-> current_row, overlaps_needed |-> overlaps,
     at |-> "start"]

\* the for-loop of one backtrack call: its generator, the candidates the
\* generator has produced so far, and the rows the call was entered with
BacktrackFrame(entry_rows, target) ==
    [entry |-> entry_rows,
     yielded |-> <<>>,
     gen |-> <<BuildRowFrame(0, total_ones, 0,
                             [i \in 1..Len(entry_rows) |-> target])>>]

Top == bt[Len(bt)]

Gen == Top.gen

Cur == Gen[Len(Gen)]

Front(s) == SubSeq(s, 1, Len(s) - 1)

SetTop(f) == [bt EXCEPT ![Len(bt)] = f]

SetGen(g) == SetTop([Top EXCEPT !.gen = g])

Running == pc = "gen" /\ bt # <<>> /\ Gen # <<>>

\* lines 8-11
BuildRowBase ==
    /\ Running
    /\ Cur.at = "start"
    /\ Cur.bit_index = m
    /\ IF BaseYields(Cur.ones_left, Cur.overlaps_needed)
       THEN /\ cand' = Cur.current_row
            /\ pc' = "yield"
            /\ bt' = SetTop([Top EXCEPT
                     !.gen = Append(Front(Gen), [Cur EXCEPT !.at = "yielded"]),
                     !.yielded = Append(Top.yielded, Cur.current_row)])
       ELSE /\ bt' = SetGen(Front(Gen))
            /\ UNCHANGED <<cand, pc>>
    /\ UNCHANGED <<n, m, total_ones, lam, rows, result, out, pidx>>

\* lines 13-31
BuildRowSet ==
    /\ Running
    /\ Cur.at = "start"
    /\ Cur.bit_index # m
    /\ LET sh == Shift(m, Cur.bit_index)
           remaining_positions == m - Cur.bit_index
           r == SetLoop(rows, Cur.overlaps_needed, sh, remaining_positions)
           self == [Cur EXCEPT !.at = "set"]
       IN  IF Cur.ones_left > 0 /\ ~r.prune
           THEN bt' = SetGen(Front(Gen) \o
                     <<self, BuildRowFrame(Cur.bit_index + 1, Cur.ones_left - 1,
                                           SetBit(Cur.current_row, sh),
                                           r.new_overlaps)>>)
           ELSE bt' = SetGen(Append(Front(Gen), self))
    /\ UNCHANGED <<n, m, total_ones, lam, rows, pc, cand, result, out, pidx>>

\* lines 33-43
BuildRowClear ==
    /\ Running
    /\ Cur.at = "set"
    /\ LET sh == Shift(m, Cur.bit_index)
           remaining_positions == m - Cur.bit_index
           r == ClearLoop(rows, Cur.overlaps_needed, sh, remaining_positions)
           self == [Cur EXCEPT !.at = "clear"]
       IN  IF ~r.prune
           THEN bt' = SetGen(Front(Gen) \o
                     <<self, BuildRowFrame(Cur.bit_index + 1, Cur.ones_left,
                                           Cur.current_row, r.new_overlaps)>>)
           ELSE bt' = SetGen(Append(Front(Gen), self))
    /\ UNCHANGED <<n, m, total_ones, lam, rows, pc, cand, result, out, pidx>>

\* the return of line 11 after a yield, and falling off the end at line 43
BuildRowReturn ==
    /\ Running
    /\ Cur.at \in {"clear", "yielded"}
    /\ bt' = SetGen(Front(Gen))
    /\ UNCHANGED <<n, m, total_ones, lam, rows, pc, cand, result, out, pidx>>

\* the outermost build_row has returned: the for-loop gets StopIteration
StopIteration ==
    /\ pc = "gen"
    /\ bt # <<>>
    /\ Gen = <<>>
    /\ pc' = "exhausted"
    /\ UNCHANGED <<n, m, total_ones, lam, rows, bt, cand, result, out, pidx>>

\* --------------------------------------------------------- backtrack
\* rows.pop() of line 65
PopRowsKeep(r) == r

PopRowsFront(r) == SubSeq(r, 2, Len(r))

PopRows(r) == SubSeq(r, 1, Len(r) - 1)

\* lines 57-60: a call of backtrack(rows) starts
BacktrackEnter ==
    /\ pc = "call"
    /\ IF Len(rows) = 4 * n - 1
       THEN /\ result' = ListVal(rows)
            /\ pc' = "returned"
            /\ bt' = bt
       ELSE /\ bt' = Append(bt, BacktrackFrame(rows, lam))
            /\ pc' = "gen"
            /\ result' = result
    /\ UNCHANGED <<n, m, total_ones, lam, rows, cand, out, pidx>>

\* lines 60-62: the for-loop receives a candidate, appends it and recurses
AppendCandidate ==
    /\ pc = "yield"
    /\ rows' = Append(rows, cand)
    /\ pc' = "call"
    /\ UNCHANGED <<n, m, total_ones, lam, bt, cand, result, out, pidx>>

\* line 66: the for-loop is over, the call returns None
ReturnNone ==
    /\ pc = "exhausted"
    /\ result' = NoneVal
    /\ bt' = Front(bt)
    /\ pc' = "returned"
    /\ UNCHANGED <<n, m, total_ones, lam, rows, cand, out, pidx>>

\* lines 62-65: the recursive call has returned into the caller's loop body
AfterCall ==
    /\ pc = "returned"
    /\ bt # <<>>
    /\ IF Truthy(result)
       THEN /\ bt' = Front(bt)
            /\ UNCHANGED <<rows, pc>>
       ELSE /\ rows' = PopRows(rows)
            /\ pc' = "gen"
            /\ bt' = bt
    /\ UNCHANGED <<n, m, total_ones, lam, cand, result, out, pidx>>

\* -------------------------------------------------------------- output
ElapsedLine == [kind |-> "elapsed", idx |-> 0, vals |-> <<>>]

RowLine(i, row_list) == [kind |-> "row", idx |-> i, vals |-> row_list]

\* line 78: [1] + [1 if (row >> (m - 1 - j)) & 1 else 0 for j in range(m)]
RowListLeadZero(row) ==
    <<0>> \o [j \in 1..m |-> IF TestBit(row, Shift(m, j - 1)) = 1 THEN 1 ELSE 0]

RowList(row) ==
    <<1>> \o [j \in 1..m |-> IF TestBit(row, Shift(m, j - 1)) = 1 THEN 1 ELSE 0]

\* enumerate(rows_bitmask, start=1): label of the design row at list index k
RowLabelFromZero(k) == k

RowLabel(k) == k + 1

\* lines 68-71: the top-level backtrack call is back, the time is printed
PrintElapsed ==
    /\ pc = "returned"
    /\ bt = <<>>
    /\ out' = Append(out, ElapsedLine)
    /\ pc' = "main"
    /\ UNCHANGED <<n, m, total_ones, lam, rows, bt, cand, result, pidx>>

\* lines 84-85 and 74-76: `if rows_bitmask:` and the line of Row 0
MainPrintRow0 ==
    /\ pc = "main"
    /\ IF Truthy(result)
       THEN /\ out' = Append(out, RowLine(0, [j \in 1..4 * n |-> 1]))
            /\ pc' = "print"
       ELSE /\ pc' = "done"
            /\ out' = out
    /\ pidx' = 0
    /\ UNCHANGED <<n, m, total_ones, lam, rows, bt, cand, result>>

\* lines 77-79: one iteration of the loop over the design rows
PrintRow ==
    /\ pc = "print"
    /\ IF pidx < Len(result.val)
       THEN /\ out' = Append(out, RowLine(RowLabel(pidx),
                                          RowList(result.val[pidx + 1])))
            /\ pidx' = pidx + 1
            /\ pc' = pc
       ELSE /\ pc' = "done"
            /\ UNCHANGED <<out, pidx>>
    /\ UNCHANGED <<n, m, total_ones, lam, rows, bt, cand, result>>

\* a consumer that only iterates, `for c in build_row(...)`, takes the
\* candidate and resumes the generator
TakeCandidate ==
    /\ pc = "yield"
    /\ pc' = "gen"
    /\ UNCHANGED <<n, m, total_ones, lam, rows, bt, cand, result, out, pidx>>

\* ------------------------------------------------------ specifications
\* find_minimal_hadamard(n) as the program runs it
InitFor(nn, target) ==
    /\ n = nn
    /\ m = 4 * nn - 1
    /\ total_ones = 2 * nn - 1
    /\ lam = target
    /\ rows = <<FirstRowSum(4 * nn - 1, 2 * nn - 1)>>
    /\ bt = <<>>
    /\ pc = "call"
    /\ cand = 0
    /\ result = NoneVal
    /\ out = <<>>
    /\ pidx = 0

Init == \E nn \in 1..MaxN : InitFor(nn, nn - 1)

Next ==
    \/ BuildRowBase
    \/ BuildRowSet
    \/ BuildRowClear
    \/ BuildRowReturn
    \/ StopIteration
    \/ BacktrackEnter
    \/ AppendCandidate
    \/ ReturnNone
    \/ AfterCall
    \/ PrintElapsed
    \/ MainPrintRow0
    \/ PrintRow

Spec == Init /\ [][Next]_vars

\* the same program with the overlap target of line 59 replaced: the true
\* target n-1, or a value outside [0, total_ones]
CorruptTargets(nn) ==
    ((0 - MaxCorrupt)..(0 - 1)) \cup ((2 * nn)..(4 * nn - 1 + MaxCorrupt))

InitLam == \E nn \in 1..MaxN : \E t \in {nn - 1} \cup CorruptTargets(nn) :
               InitFor(nn, t)

SpecLam == InitLam /\ [][Next]_vars /\ WF_vars(Next)

\* build_row alone, called at top level on arbitrary accepted rows
BitRows(mm) == 0..(Pow2(mm) - 1)

RowLists(mm) == UNION {[1..l -> BitRows(mm)] : l \in 0..MaxGenRows}

InitGen ==
    \E mm \in 1..MaxGenM : \E k \in 0..mm : \E t \in (0 - 1)..mm :
    \E rs \in RowLists(mm) :
        /\ n = 0
        /\ m = mm
        /\ total_ones = k
        /\ lam = t
        /\ rows = rs
        /\ bt = <<[entry |-> rs, yielded |-> <<>>,
                   gen |-> <<BuildRowFrame(0, k, 0, [i \in 1..Len(rs) |-> t])>>]>>
        /\ pc = "gen"
        /\ cand = 0
        /\ result = NoneVal
        /\ out = <<>>
        /\ pidx = 0

NextGen ==
    \/ BuildRowBase
    \/ BuildRowSet
    \/ BuildRowClear
    \/ BuildRowReturn
    \/ StopIteration
    \/ TakeCandidate

SpecGen == InitGen /\ [][NextGen]_vars

\* ------------------------------------------------- properties: helpers
RECURSIVE PopCount(_)
PopCount(v) == IF v <= 0 THEN 0 ELSE (v % 2) + PopCount(v \div 2)

RECURSIVE BitAnd(_, _)
BitAnd(a, b) ==
    IF a <= 0 \/ b <= 0 THEN 0
    ELSE (a % 2) * (b % 2) + 2 * BitAnd(a \div 2, b \div 2)

Overlap(a, b) == PopCount(BitAnd(a, b))

\* the mm-bit value whose leftmost cnt bits are set
LeftmostOnes(mm, cnt) == Pow2(mm) - Pow2(mm - cnt)

\* v is an m-bit row of the right weight meeting the target against prefix
ValidRow(v, prefix, weight, target) ==
    /\ PopCount(v) = weight
    /\ \A i \in 1..Len(prefix) : Overlap(v, prefix[i]) = target

ValidRows(prefix, weight, target) ==
    {v \in BitRows(m) : ValidRow(v, prefix, weight, target)}

IsDesign(R) ==
    /\ Len(R) = 4 * n - 1
    /\ R[1] = LeftmostOnes(4 * n - 1, 2 * n - 1)
    /\ \A i \in 1..Len(R) : R[i] \in BitRows(4 * n - 1) /\ PopCount(R[i]) = 2 * n - 1
    /\ \A i, j \in 1..Len(R) : i # j => Overlap(R[i], R[j]) = n - 1

Found == result.tag = "list"

SearchOver == pc \in {"main", "print", "done"}

\* C1: a result returned by find_minimal_hadamard is a Design: 4n-1 rows,
\* the first one the fixed first row, every row an m-bit value with 2n-1
\* set bits, every two rows at distinct positions sharing exactly n-1 bits.
C1_ResultIsDesign == Found => IsDesign(result.val)

C1_Witness == pc = "done" /\ Found /\ n >= 2 /\ Len(result.val) = 4 * n - 1

\* C2: the 4n x 4n matrix printed by print_hadamard_01, with 0 read as -1
\* and 1 as +1, has row dot products 4n (a row with itself) and 0 (two
\* different rows).
RECURSIVE DotUpTo(_, _, _)
DotUpTo(a, b, c) ==
    IF c = 0 THEN 0
    ELSE (2 * a[c] - 1) * (2 * b[c] - 1) + DotUpTo(a, b, c - 1)

PrintedRow(i) == out[i + 1].vals

C2_PrintedMatrixHadamard ==
    (pc = "done" /\ Found) =>
        /\ Len(out) = 4 * n + 1
        /\ \A i, j \in 1..(4 * n) :
              /\ Len(PrintedRow(i)) = 4 * n
              /\ DotUpTo(PrintedRow(i), PrintedRow(j), 4 * n)
                    = IF i = j THEN 4 * n ELSE 0

C2_Witness == pc = "done" /\ Found /\ n >= 2 /\ Len(out) = 4 * n + 1

\* C3: the result is the design that is greatest when designs starting with
\* the fixed first row are compared row by row: no valid row greater than
\* the one chosen at a position can be extended to a design; and no result
\* is reported exactly when no design starting with the first row exists.
RECURSIVE Extendable(_)
Extendable(prefix) ==
    IF Len(prefix) = 4 * n - 1 THEN TRUE
    ELSE \E v \in ValidRows(prefix, 2 * n - 1, n - 1) :
             Extendable(Append(prefix, v))

C3_LexGreatestDesign ==
    pc = "done" =>
        IF Found
        THEN LET R == result.val IN
             /\ IsDesign(R)
             /\ \A i \in 2..Len(R) :
                    LET prefix == SubSeq(R, 1, i - 1) IN
                    \A v \in ValidRows(prefix, 2 * n - 1, n - 1) :
                        v > R[i] => ~Extendable(Append(prefix, v))
        ELSE ~Extendable(<<LeftmostOnes(4 * n - 1, 2 * n - 1)>>)

C3_Witness == pc = "done" /\ Found /\ n >= 2 /\ IsDesign(result.val)

\* C4: a top-level build_row(0, k, 0, rows, [lambda]*len(rows), m, n) yields
\* exactly the m-bit values with k set bits that share lambda set bits with
\* every accepted row: only such values, each once, and all of them by the
\* time the generator is exhausted.
YieldedSet == {Top.yielded[i] : i \in 1..Len(Top.yielded)}

C4_YieldsExactlyValid ==
    /\ pc = "yield" =>
          /\ cand \in BitRows(m)
          /\ ValidRow(cand, rows, total_ones, lam)
          /\ Cardinality(YieldedSet) = Len(Top.yielded)
    /\ pc = "exhausted" =>
          /\ YieldedSet = ValidRows(rows, total_ones, lam)
          /\ Cardinality(YieldedSet) = Len(Top.yielded)

C4_Witness ==
    /\ pc = "exhausted"
    /\ Len(rows) >= 2
    /\ rows[1] # rows[2]
    /\ Len(Top.yielded) >= 2

\* C5: the candidates produced by one build_row generator are strictly
\* descending in numeric value.
C5_StrictlyDescending ==
    \A i \in 1..(Len(Top.yielded) - 1) : Top.yielded[i] > Top.yielded[i + 1]

C5_Witness == Len(rows) >= 1 /\ Len(Top.yielded) >= 3

\* C6: the search terminates for every n, with a design or with no result;
\* with an overlap target outside [0, k] it terminates reporting no result.
CorruptTarget == lam < 0 \/ lam > total_ones

C6_Terminates ==
    /\ <>(pc = "done")
    /\ [](pc = "done" /\ CorruptTarget => result = NoneVal)

C6_Witness == pc = "done" /\ CorruptTarget /\ lam > m /\ result = NoneVal

\* C7: the elapsed-time line is printed exactly once, after the search has
\* ended and before any matrix line; matrix lines are printed iff the search
\* succeeded, and then they are the 4n lines Row 0 .. Row 4n-1 in order,
\* each with 4n values from {0,1}.
C7_OutputShape ==
    /\ (out # <<>>) <=> SearchOver
    /\ out # <<>> => out[1] = ElapsedLine
    /\ \A i \in 2..Len(out) :
          /\ out[i].kind = "row"
          /\ out[i].idx = i - 2
          /\ Len(out[i].vals) = 4 * n
          /\ \A c \in 1..Len(out[i].vals) : out[i].vals[c] \in {0, 1}
    /\ Len(out) > 1 => Found
    /\ pc = "done" => Len(out) = IF Found THEN 1 + 4 * n ELSE 1

C7_Witness == pc = "done" /\ Found /\ Len(out) = 1 + 4 * n /\ n >= 2

\* C8: at every invocation of build_row at bit position p every entry of
\* the overlap requirement lies within [0, m - p].
C8_OverlapsInRange ==
    \A b \in 1..Len(bt) : \A g \in 1..Len(bt[b].gen) :
        LET f == bt[b].gen[g] IN
        \A i \in 1..Len(f.overlaps_needed) :
            0 <= f.overlaps_needed[i] /\ f.overlaps_needed[i] <= m - f.bit_index

\* C9: rows changes only by an append at its end or by removing its last
\* element, never its first; a backtrack call that returns failure leaves
\* rows as it found them, so a failed search leaves the single first row.
IsAppend(old, new) == Len(new) = Len(old) + 1 /\ SubSeq(new, 1, Len(old)) = old

C9_StackDiscipline ==
    /\ [][\/ rows' = rows
          \/ IsAppend(rows, rows')
          \/ (Len(rows) > 1 /\ IsAppend(rows', rows))]_vars
    /\ [](pc = "exhausted" => rows = Top.entry)
    /\ [](SearchOver /\ ~Found
             => rows = <<LeftmostOnes(4 * n - 1, 2 * n - 1)>>)

C9_Witness ==
    /\ pc = "exhausted"
    /\ Len(bt) >= 2
    /\ Len(rows) >= 2
    /\ rows = Top.entry

\* C10: whenever the generator of a backtrack level runs (is started or
\* resumed), the shared list holds exactly the rows the level was entered
\* with, and every candidate it has produced is valid against those rows.
C10_ResumedOnEntryRows ==
    (pc = "gen" /\ bt # <<>>) =>
        /\ rows = Top.entry
        /\ \A i \in 1..Len(Top.yielded) :
               ValidRow(Top.yielded[i], Top.entry, total_ones, lam)

C10_Witness ==
    /\ pc = "gen"
    /\ Len(bt) >= 2
    /\ Len(Top.yielded) >= 1
    /\ Gen # <<>>
    /\ Cur.at = "yielded"

====
